---- MODULE Spec2Model ----
(***************************************************************************)
(* Model of snyk_default_branch_tagger.py: the orchestrator main(), the    *)
(* Snyk client (token details, paginated organization and target listing,  *)
(* project listing, tag_project), the GitHub client (URL to owner/repo,     *)
(* default branch lookup) and the ErrorLogger ledger.                       *)
(*                                                                         *)
(* Strings that the code takes apart (URLs, next-links) are sequences of   *)
(* tokens; other strings are TLA+ strings.  Python's None is the string    *)
(* "None" for string-valued fields and the empty option <<>> for           *)
(* structured ones (an option is <<>> or <<v>>).                           *)
(***************************************************************************)
EXTENDS Integers, Sequences, FiniteSets, TLC

VARIABLES
    pc,                 \* position of main(): see PcValues
    exc,                \* the uncaught exception that ended main(), or "None"
    cfg,                \* environment and arguments: tokens, --key, --dry-run, ...
    fallback_user_id,   \* main: fallback_user_id
    errors,             \* ErrorLogger.errors
    log_file,           \* content of the persisted error log (option)
    error_summary,      \* main: error_summary (option)
    fetch,              \* locals of the running pagination loop
    orgs,               \* main: orgs
    org_idx,            \* position of `for org in orgs`
    targets,            \* main: targets
    target_idx,         \* position of `for target in targets`
    project_details,    \* main: project_details (option)
    repo_info,          \* main: repo_info (option)
    matching_projects,  \* main: matching_projects
    proj_idx,           \* position of `for project in matching_projects`
    last_error_details, \* GithubAPI.last_error_details (option)
    reqs,               \* every network call made so far, with its response status
    outcomes,           \* what main reported for each matched project, in order
    srv                 \* number of records the remote platform has served so far

vars == <<pc, exc, cfg, fallback_user_id, errors, log_file, error_summary, fetch,
          orgs, org_idx, targets, target_idx, project_details, repo_info,
          matching_projects, proj_idx, last_error_details, reqs, outcomes, srv>>

-----------------------------------------------------------------------------
(* Bounds of the model *)

\* organizations served in a whole run
MaxOrgs == 2
\* targets served in a whole run
MaxTargets == 2
\* projects served in a whole run
MaxProjects == 2
\* records (organizations, targets and projects together) served in a whole run
MaxRecords == 4
\* pages of one listing, pagination checked alone
MaxFetchPages == 3
\* records on one page
MaxPerPage == 2
\* tags on a project, one matched project checked alone
MaxTags == 3
\* path segments of a target URL when the identity extraction is checked alone
MaxSegments == 3
\* entries of a project listing when the matching is checked alone
MaxListing == 3

-----------------------------------------------------------------------------
(* Values *)

None == "None"

Some(v) == <<v>>

IsSome(o) == o # <<>>

\* a truth test that every value passes
AlwaysTruthy(s) == TRUE

\* Python truthiness of a string-valued field
Truthy(s) == s # None /\ s # ""

OrgIds == <<"o1", "o2", "o3", "o4", "o5", "o6", "o7", "o8",
            "o9", "o10", "o11", "o12", "o13", "o14", "o15", "o16">>
TargetIds == <<"t1", "t2", "t3", "t4", "t5", "t6", "t7", "t8",
               "t9", "t10", "t11", "t12", "t13", "t14", "t15", "t16">>
ProjectIds == <<"p1", "p2", "p3", "p4", "p5", "p6", "p7", "p8">>
Cursors == <<"c1", "c2", "c3", "c4", "c5", "c6", "c7", "c8">>

Branches == {"main", "dev"}

RECURSIVE SeqsUpTo(_, _)
\* all sequences over S of length at most n
SeqsUpTo(S, n) ==
    IF n = 0 THEN {<<>>}
    ELSE LET shorter == SeqsUpTo(S, n - 1)
         IN shorter \cup {Append(s, x) : s \in {t \in shorter : Len(t) = n - 1}, x \in S}

Min(a, b) == IF a <= b THEN a ELSE b

-----------------------------------------------------------------------------
(* URLs as token sequences *)

\* Python None where a URL string is expected
NoneUrl == <<"None">>

\* Python truthiness of a URL-valued field: neither None nor ""
TruthyUrl(u) == u # NoneUrl /\ u # <<>>

\* SnykAPI._get_base_url, default region
SnykBase == <<"https:", "/", "/", "api.snyk.io">>

\* GithubAPI.base_url for the default --github-base-url
GithubBase == <<"https:", "/", "/", "api.github.com">>

Schemes == {"http:", "https:"}

\* str.startswith('http')
StartsWithHttp(u) == Len(u) > 0 /\ u[1] \in Schemes

\* str.startswith('/')
StartsWithSlash(u) == Len(u) > 0 /\ u[1] = "/"

RECURSIVE LStripSlash(_)
\* str.lstrip('/')
LStripSlash(u) == IF Len(u) > 0 /\ u[1] = "/" THEN LStripSlash(Tail(u)) ELSE u

\* a next-link requested as it was received
VerbatimNext(base, link) == IF TruthyUrl(link) THEN link ELSE NoneUrl

\* the URL of the request that follows a next-link
ResolveNext(base, link) ==
    IF TruthyUrl(link)
    THEN IF StartsWithHttp(link) THEN link
         ELSE IF StartsWithSlash(link) THEN base \o link
         ELSE base \o <<"/">> \o LStripSlash(link)
    ELSE NoneUrl

OrgsUrl == SnykBase \o <<"/", "rest", "/", "orgs">>

TargetsUrl(org_id) == SnykBase \o <<"/", "rest", "/", "orgs", "/", org_id, "/", "targets">>

ProjectsUrl(org_id) == SnykBase \o <<"/", "rest", "/", "orgs", "/", org_id, "/", "projects">>

ProjectUrl(org_id, project_id) == ProjectsUrl(org_id) \o <<"/", project_id>>

SelfUrl == SnykBase \o <<"/", "rest", "/", "self">>

\* query parameters of the first organization request
OrgsParams(group_id) ==
    {"version", "limit"} \cup (IF Truthy(group_id) THEN {"group_id"} ELSE {})

\* query parameters of the first target request
TargetsParams(source_types_given) ==
    {"version", "limit"} \cup (IF source_types_given THEN {"source_types"} ELSE {})

-----------------------------------------------------------------------------
(* HTTP *)

\* session.get / session.patch raised before any response arrived
NetworkError(status) == status = 0

\* a raise_for_status that lets every status pass
NeverRaises(status) == FALSE

\* response.raise_for_status()
RaisesForStatus(status) == status >= 400 /\ status < 600

\* a request made through `response = ...; response.raise_for_status()` raised
RequestFailed(status) == NetworkError(status) \/ RaisesForStatus(status)

ExceptionOf(status) == IF NetworkError(status) THEN "ConnectionError" ELSE "HTTPError"

\* one entry of the request log: method, endpoint, URL, query parameters, status
\* of the response, the entity asked about, the body sent (option) and the
\* records of a listing page
Request(m, ep, url, params, status, ref, body, data) ==
    [m |-> m, ep |-> ep, url |-> url, params |-> params, status |-> status,
     ref |-> ref, body |-> body, data |-> data]

-----------------------------------------------------------------------------
(* Pagination loop of get_snyk_orgs and get_targets_for_org *)

FetchIdle == [all |-> <<>>, next_url |-> NoneUrl, next_params |-> {}, page |-> 0]

FetchStart(url, params) ==
    [all |-> <<>>, next_url |-> url, next_params |-> params, page |-> 1]

\* data.get('links', {}).get('next')
LinksNext(body) == IF body.links = <<>> THEN NoneUrl ELSE body.links[1]

\* an accumulation that keeps the last page only
KeepLastPage(all, page_data) == page_data

\* all_orgs.extend(orgs)
Extend(all, page_data) == all \o page_data

\* one pass of the loop body after a successful response
PageStep(f, body, base) ==
    [all |-> Extend(f.all, body.data),
     next_url |-> ResolveNext(base, LinksNext(body)),
     next_params |-> {},
     page |-> f.page + 1]

\* a loop that leaves after its first pass
StopAtFirstPage(f) == FALSE

\* `while next_url:`
FetchContinues(f) == TruthyUrl(f.next_url)

-----------------------------------------------------------------------------
(* GithubAPI.extract_repo_info_from_url *)

\* url.endswith('.git')
EndsWithGit(u) == Len(u) > 0 /\ u[Len(u)] = ".git"

\* url[:-4] when the url ends with .git
StripGit(u) == IF EndsWithGit(u) THEN SubSeq(u, 1, Len(u) - 1) ELSE u

\* 'github.com' in url
ContainsGithubCom(u) == \E i \in DOMAIN u : u[i] = "github.com"

\* positions where the separator 'github.com/' starts
GithubSlashAt(u) == {i \in 1..(Len(u) - 1) : u[i] = "github.com" /\ u[i + 1] = "/"}

RECURSIVE DropNetloc(_)
\* what follows the host part: from the first "/" on
DropNetloc(u) == IF u = <<>> \/ u[1] = "/" THEN u ELSE DropNetloc(Tail(u))

\* urlparse(url).path
UrlPath(u) ==
    IF Len(u) >= 1 /\ u[1] \in Schemes
    THEN IF Len(u) >= 3 /\ u[2] = "/" /\ u[3] = "/"
         THEN DropNetloc(SubSeq(u, 4, Len(u)))
         ELSE Tail(u)
    ELSE u

RECURSIVE SplitSlash(_, _)
\* str.split('/'): the segments, each a token sequence; cur is the segment being read
SplitSlash(u, cur) ==
    IF u = <<>> THEN <<cur>>
    ELSE IF u[1] = "/" THEN <<cur>> \o SplitSlash(Tail(u), <<>>)
    ELSE SplitSlash(Tail(u), Append(cur, u[1]))

\* the path the owner and repo are read from: an option, <<>> when the function returns None
RepoPath(url) ==
    IF ContainsGithubCom(url)
    THEN IF Cardinality(GithubSlashAt(url)) = 1
         THEN LET i == CHOOSE j \in GithubSlashAt(url) : TRUE
              IN Some(SubSeq(url, i + 2, Len(url)))
         ELSE <<>>
    ELSE Some(LStripSlash(UrlPath(url)))

\* extract_repo_info_from_url: an option holding [owner, repo]
ExtractRepoInfo(url0) ==
    LET url == StripGit(url0)
        path == RepoPath(url)
    IN IF path = <<>> THEN <<>>
       ELSE LET path_parts == SplitSlash(path[1], <<>>)
            IN IF Len(path_parts) >= 2
               THEN Some([owner |-> path_parts[1], repo |-> path_parts[2]])
               ELSE <<>>

RepoUrl(owner, repo) == GithubBase \o <<"/", "repos", "/">> \o owner \o <<"/">> \o repo

-----------------------------------------------------------------------------
(* GithubAPI.get_default_branch and get_repository_info *)

\* the details get_default_branch hands to _record_github_error, if any
GithubErrorDetails(resp, url, owner, repo) ==
    IF NetworkError(resp.status)
    THEN Some([status_code |-> 0, exception |-> "ConnectionError",
               url |-> url, owner |-> owner, repo |-> repo])
    ELSE IF resp.status # 200
    THEN Some([status_code |-> resp.status, exception |-> None,
               url |-> url, owner |-> owner, repo |-> repo])
    ELSE IF resp.json_error = "JSONDecodeError"
    THEN Some([status_code |-> 0, exception |-> "JSONDecodeError",
               url |-> url, owner |-> owner, repo |-> repo])
    ELSE <<>>

\* response.json() raises an exception that no except clause of get_default_branch
\* names: it leaves get_default_branch, get_repository_info and main
JsonRaisesUncaught(resp) ==
    ~NetworkError(resp.status) /\ resp.status = 200 /\ resp.json_error = "ValueError"

\* the value get_default_branch returns: a branch name, "" or None
DefaultBranch(resp) ==
    IF NetworkError(resp.status) \/ resp.status # 200 \/ resp.json_error # None
    THEN None ELSE resp.default_branch

\* get_repository_info after the metadata request: an option
RepositoryInfo(ident, resp, url) ==
    IF Truthy(DefaultBranch(resp))
    THEN Some([owner |-> ident.owner, repo |-> ident.repo,
               default_branch |-> DefaultBranch(resp), url |-> url])
    ELSE <<>>

-----------------------------------------------------------------------------
(* SnykAPI.tag_project *)

Tag(k, v) == [key |-> k, value |-> v]

\* a tag_project without the dry-run return
DryRunIgnored(dry_run) == FALSE

\* `if dry_run:` at the top of tag_project
DryRunReturns(dry_run) == dry_run

\* a merge loop that drops the tags with another key
DropOtherTag(updated_tags, tag) == updated_tags

\* `updated_tags.append(tag)` for a tag with another key
KeepOtherTag(updated_tags, tag) == Append(updated_tags, tag)

\* a replacement that keeps an outdated value
ReplaceWithStale(updated_tags, tag_key, tag_value) == Append(updated_tags, Tag(tag_key, "stale"))

\* `updated_tags.append({"key": tag_key, "value": tag_value})` for a tag with the key
ReplaceKeyTag(updated_tags, tag_key, tag_value) == Append(updated_tags, Tag(tag_key, tag_value))

\* a comparison that finds no value correct
NeverCorrect(tag, tag_value) == FALSE

\* `if tag.get('value') == tag_value:` for a tag with the key
ValueIsCorrect(tag, tag_value) == tag.value = tag_value

RECURSIVE MergeLoop(_, _, _, _, _)
\* the loop over existing_tags: returned = the function returned "already_correct"
MergeLoop(rest, updated_tags, tag_found, tag_key, tag_value) ==
    IF rest = <<>>
    THEN [returned |-> FALSE, updated_tags |-> updated_tags, tag_found |-> tag_found]
    ELSE LET tag == Head(rest)
         IN IF tag.key = tag_key
            THEN IF ValueIsCorrect(tag, tag_value)
                 THEN [returned |-> TRUE, updated_tags |-> updated_tags,
                       tag_found |-> tag_found]
                 ELSE MergeLoop(Tail(rest), ReplaceKeyTag(updated_tags, tag_key, tag_value),
                                TRUE, tag_key, tag_value)
            ELSE MergeLoop(Tail(rest), KeepOtherTag(updated_tags, tag), tag_found,
                           tag_key, tag_value)

\* a merge that adds the configured value, whatever value it is handed
MergeConfigured(existing_tags, tag_key, tag_value) ==
    [status |-> "inserted", tags |-> Append(existing_tags, Tag(tag_key, "configured"))]

\* the loop followed by `if not tag_found: updated_tags.append(...)`
MergeTags(existing_tags, tag_key, tag_value) ==
    LET r == MergeLoop(existing_tags, <<>>, FALSE, tag_key, tag_value)
    IN IF r.returned THEN [status |-> "already_correct", tags |-> <<>>]
       ELSE IF r.tag_found THEN [status |-> "updated", tags |-> r.updated_tags]
       ELSE [status |-> "inserted",
             tags |-> Append(r.updated_tags, Tag(tag_key, tag_value))]

\* the PATCH body: only the tags and the owner relationship
PatchBody(project_id, updated_tags, owner_id) ==
    [id |-> project_id, tags |-> updated_tags, owner |-> owner_id]

\* tag_project: what it returns (or raises) and the request it sent, if any.
\* existing_tags is an option: <<>> is a null tag list, which the loop cannot iterate.
\* result: "dry_run", "already_correct", "tagged" (the response JSON), "None",
\* or "raised" when an exception other than RequestException leaves the function.
TagProject(org_id, project_id, tag_key, tag_value, existing_tags, owner_id, dry_run, status) ==
    IF DryRunReturns(dry_run) THEN [result |-> "dry_run", sent |-> <<>>]
    ELSE IF existing_tags = <<>> THEN [result |-> "raised", sent |-> <<>>]
    ELSE LET m == MergeTags(existing_tags[1], tag_key, tag_value)
         IN IF m.status = "already_correct"
            THEN [result |-> "already_correct", sent |-> <<>>]
            ELSE [result |-> IF RequestFailed(status) THEN "None" ELSE "tagged",
                  sent |-> Some(Request("PATCH", "project", ProjectUrl(org_id, project_id),
                                        {"version"}, status, project_id,
                                        Some(PatchBody(project_id, m.tags, owner_id)),
                                        <<>>))]

-----------------------------------------------------------------------------
(* main: owner resolution and project matching *)

\* project['relationships']['importer']['data']['id']: the id, or the exception raised.
\* importer.shape: "absent" (a key is missing, KeyError), "malformed" (a level is
\* null or not a mapping, TypeError), "present" (the id is read, whatever it is).
OwnerLookup(project) ==
    IF project.importer.shape = "present"
    THEN [raised |-> FALSE, id |-> project.importer.id]
    ELSE [raised |-> TRUE, id |-> None]

\* a check that takes any fallback, None included
AlwaysAvailable(fallback) == TRUE

\* `if fallback_user_id:`
FallbackAvailable(fallback) == Truthy(fallback)

\* the try/except around the owner lookup: found = FALSE is the `continue`
ResolveOwner(project, fallback) ==
    LET l == OwnerLookup(project)
    IN IF ~l.raised THEN [found |-> TRUE, owner_id |-> l.id]
       ELSE IF FallbackAvailable(fallback) THEN [found |-> TRUE, owner_id |-> fallback]
       ELSE [found |-> FALSE, owner_id |-> None]

\* `project_details and 'data' in project_details`
HasProjectData(details) == IsSome(details) /\ details[1].has_data

\* project['attributes']['target_reference'] raises KeyError
EntryRaises(project) == ~project.has_ref

\* the loop that builds matching_projects raises on some entry
MatchRaises(data) == \E i \in DOMAIN data : EntryRaises(data[i])

\* a comparison that selects every project
MatchesAny(project, default_branch) == TRUE

\* project['attributes']['target_reference'] == repo_info['default_branch']
Matches(project, default_branch) == project.target_reference = default_branch

\* a selection that keeps the whole listing
AllProjects(data, default_branch) == data

RECURSIVE MatchingProjects(_, _)
\* matching_projects
MatchingProjects(data, default_branch) ==
    IF data = <<>> THEN <<>>
    ELSE IF Matches(Head(data), default_branch)
    THEN <<Head(data)>> \o MatchingProjects(Tail(data), default_branch)
    ELSE MatchingProjects(Tail(data), default_branch)

-----------------------------------------------------------------------------
(* ErrorLogger *)

\* the entry log_error appends (the timestamp is the position in the ledger)
ErrorEntry(error_type, project_id, target_id, target_url, org_id, gh) ==
    [error_type |-> error_type, project_id |-> project_id, target_id |-> target_id,
     target_url |-> target_url, org_id |-> org_id, gh |-> gh]

\* a log_error that puts the new entry first
PrependError(ledger, entry) == <<entry>> \o ledger

\* ErrorLogger.log_error
LogError(ledger, entry) == Append(ledger, entry)

\* ErrorLogger.save_log: the file content afterwards
SaveLog(ledger, file, write_ok) ==
    IF ledger # <<>> /\ write_ok THEN Some(ledger) ELSE file

\* ErrorLogger.get_summary
GetSummary(ledger) ==
    [t \in {ledger[i].error_type : i \in DOMAIN ledger} |->
        Cardinality({i \in DOMAIN ledger : ledger[i].error_type = t})]

-----------------------------------------------------------------------------
(* The remote platforms: the responses a request can get.  A whole run     *)
(* (mode "run") draws each response from a few representative values; the  *)
(* page sizes (mode "fetch"), the next-links (mode "links"), the handling  *)
(* of one matched project (mode "merge") and the resolution of one target  *)
(* (mode "resolve") are explored with the full sets.                       *)

\* status of a response; 0: the request raised before a response arrived
HttpStatuses == {200, 500, 0}

\* statuses of the requests to the scan platform
CallStatuses == IF cfg.mode = "run" THEN {200, 500} ELSE HttpStatuses

\* statuses of the target listing requests; with pagination checked alone the
\* target listing is explored for the first organization only
TargetListStatuses ==
    IF cfg.mode \in {"fetch", "links"} /\ org_idx > 1 THEN {} ELSE CallStatuses

\* records of a kind the platform may still serve in a whole run
Left(kind) ==
    Min(MaxRecords - (srv.orgs + srv.targets + srv.projects),
        IF kind = "orgs" THEN MaxOrgs - srv.orgs
        ELSE IF kind = "targets" THEN MaxTargets - srv.targets
        ELSE MaxProjects - srv.projects)

\* numbers of records a listing page may carry.  In a whole run a page after the
\* first is not empty.
PageSizes(kind) ==
    IF cfg.mode = "fetch" THEN 0..MaxPerPage
    ELSE IF cfg.mode = "links" THEN {1}
    ELSE (IF fetch.page > 1 THEN 1 ELSE 0)..Min(MaxPerPage, Left(kind))

\* whether a page of n records may name a next page
MorePages(kind, n) ==
    IF cfg.mode \in {"fetch", "links"} THEN fetch.page < MaxFetchPages
    ELSE n >= 1 /\ Left(kind) - n >= 1

\* the `links` member of a page: absent, next null, next "", or a next-link to
\* cursor c in absolute, root-relative or bare form.  Every form is drawn where
\* the next-links are checked (mode "links"); elsewhere links is absent or holds an
\* absolute next-link.
PageLinks(path, more) ==
    LET c == <<"?", Cursors[fetch.page + 1]>>
    IN IF cfg.mode = "links"
       THEN {<<>>, Some(NoneUrl), Some(<<>>)}
            \cup (IF more
                  THEN {Some(SnykBase \o path \o c), Some(path \o c), Some(Tail(path) \o c)}
                  ELSE {})
       ELSE {<<>>} \cup (IF more THEN {Some(SnykBase \o path \o c)} ELSE {})

GoodUrl == <<"https:", "/", "/", "github.com", "/", "acme", "/", "widgets">>
ShortUrl == <<"https:", "/", "/", "github.com", "/", "acme">>

\* attributes.url of a target: absent, a repository URL, a URL with one path segment
TargetUrlChoices ==
    IF cfg.mode \in {"fetch", "links"} THEN {GoodUrl} ELSE {NoneUrl, GoodUrl, ShortUrl}

OrgRecords(n) == [i \in 1..n |-> [id |-> OrgIds[srv.orgs + i]]]

TargetRecords(n) ==
    {[i \in 1..n |-> [id |-> TargetIds[srv.targets + i], url |-> u[i]]] :
        u \in [1..n -> TargetUrlChoices]}

OrgPageBodies ==
    UNION {{[data |-> OrgRecords(n), links |-> l] :
              l \in PageLinks(<<"/", "rest", "/", "orgs">>, MorePages("orgs", n))} :
           n \in PageSizes("orgs")}

TargetPageBodies(org_id) ==
    UNION {{[data |-> d, links |-> l] :
              d \in TargetRecords(n),
              l \in PageLinks(<<"/", "rest", "/", "orgs", "/", org_id, "/", "targets">>,
                              MorePages("targets", n))} :
           n \in PageSizes("targets")}

\* attributes.target_reference of a listing entry
References == IF cfg.mode = "resolve" THEN Branches \cup {"Main"} ELSE Branches

\* a listing entry as the matching loop reads it: has_ref = FALSE is an entry
\* without attributes.target_reference
ProjectEntries(id) ==
    {[id |-> id, has_ref |-> FALSE, target_reference |-> None]}
    \cup {[id |-> id, has_ref |-> TRUE, target_reference |-> r] : r \in References}

RECURSIVE ProjectListsOf(_)
\* the listings of n entries, with the ids the platform assigns next
ProjectListsOf(n) ==
    IF n = 0 THEN {<<>>}
    ELSE {Append(l, e) : l \in ProjectListsOf(n - 1),
                         e \in ProjectEntries(ProjectIds[srv.projects + n])}

ProjectLists == UNION {ProjectListsOf(n) : n \in 0..Left("projects")}

\* the JSON of the project listing: without `data`, or with a list of entries
ProjectBodies ==
    (IF cfg.mode = "run" THEN {} ELSE {[has_data |-> FALSE, data |-> <<>>]})
    \cup {[has_data |-> TRUE, data |-> d] : d \in ProjectLists}

\* the importer relationship of a project, read when the project is processed
ImporterShapes ==
    {[shape |-> "absent", id |-> None], [shape |-> "present", id |-> "u1"]}
    \cup (IF cfg.mode = "run" THEN {}
          ELSE {[shape |-> "malformed", id |-> None], [shape |-> "present", id |-> None],
                [shape |-> "present", id |-> ""]})

TagKeys == {"branch", "team"}

MergeTagSet == {Tag(k, v) : k \in TagKeys, v \in Branches}

\* attributes.tags of a project, read when the project is processed: null or a list
TagLists ==
    {<<>>}
    \cup (IF cfg.mode = "run"
          THEN {Some(<<>>), Some(<<Tag(cfg.key, "main")>>)}
          ELSE {Some(t) : t \in SeqsUpTo(MergeTagSet, MaxTags)})

\* the repository-metadata response.  json_error is what response.json() raises on
\* an unparseable body: requests' JSONDecodeError, a RequestException since requests
\* 2.27, or the plain ValueError of older versions; None when the body parses.
GithubResponses ==
    {[status |-> 404, default_branch |-> None, json_error |-> None]}
    \cup {[status |-> 200, default_branch |-> b, json_error |-> None] :
             b \in Branches \cup {None}}
    \cup (IF cfg.mode = "run" THEN {}
          ELSE {[status |-> 0, default_branch |-> None, json_error |-> None],
                [status |-> 200, default_branch |-> "", json_error |-> None],
                [status |-> 200, default_branch |-> None, json_error |-> "JSONDecodeError"],
                [status |-> 200, default_branch |-> None, json_error |-> "ValueError"]})

\* what the log keeps of a repository-metadata response: the default_branch read
BranchRead(resp) ==
    IF ~NetworkError(resp.status) /\ resp.status = 200 /\ resp.json_error = None
    THEN <<resp.default_branch>> ELSE <<>>

\* the token-details response: body is "no_data", "no_id" or "id"
TokenResponses ==
    {[status |-> 500, body |-> "no_data", id |-> None],
     [status |-> 200, body |-> "no_id", id |-> None],
     [status |-> 200, body |-> "id", id |-> "u0"]}

-----------------------------------------------------------------------------
(* main: control flow *)

\* pc is the position of main: "start", "token", "orgs", "targets", "target", "repo",
\* "project", "save", then "done"; "exit1" after sys.exit(1); "aborted" after an
\* uncaught exception

\* where main goes after the iteration for ts[ti] (ti = 0: right after the listing
\* returned ts): the next target, the target listing of the next organization, or
\* the end of the loops
AfterTarget(ti, ts) ==
    IF ti < Len(ts)
    THEN [pc |-> "target", org_idx |-> org_idx, target_idx |-> ti + 1,
          targets |-> ts, fetch |-> FetchIdle]
    ELSE IF org_idx < Len(orgs)
    THEN [pc |-> "targets", org_idx |-> org_idx + 1, target_idx |-> 0,
          targets |-> <<>>,
          fetch |-> FetchStart(TargetsUrl(orgs[org_idx + 1].id), TargetsParams(TRUE))]
    ELSE [pc |-> "save", org_idx |-> org_idx, target_idx |-> 0,
          targets |-> <<>>, fetch |-> FetchIdle]

\* main moves on as AfterTarget says
Goto(n) ==
    /\ pc' = n.pc
    /\ org_idx' = n.org_idx
    /\ target_idx' = n.target_idx
    /\ targets' = n.targets
    /\ fetch' = n.fetch

\* the iteration for the current target ends; its locals are dead from here on
EndTarget ==
    /\ Goto(AfterTarget(target_idx, targets))
    /\ project_details' = <<>>
    /\ repo_info' = <<>>
    /\ matching_projects' = <<>>
    /\ proj_idx' = 0

\* an exception leaves main uncaught
Abort(e) ==
    /\ pc' = "aborted"
    /\ exc' = e

-----------------------------------------------------------------------------
(* main: the steps *)

\* the credential checks and the validation of --integration-type
CheckCredentials ==
    /\ pc = "start"
    /\ pc' = IF Truthy(cfg.snyk_token) /\ Truthy(cfg.github_token) /\ cfg.types_ok
             THEN "token" ELSE "exit1"
    /\ UNCHANGED <<exc, cfg, fallback_user_id, errors, log_file, error_summary, fetch,
                   orgs, org_idx, targets, target_idx, project_details, repo_info,
                   matching_projects, proj_idx, last_error_details, reqs, outcomes, srv>>

\* fallback_user_id from get_token_details; then the organization listing starts
GetTokenDetails ==
    /\ pc = "token"
    /\ \E resp \in TokenResponses :
         /\ reqs' = Append(reqs, Request("GET", "self", SelfUrl, {"version"}, resp.status,
                                         None, <<>>, <<>>))
         /\ IF ~RequestFailed(resp.status) /\ resp.body = "no_id"
            THEN /\ Abort("KeyError")
                 /\ UNCHANGED <<fallback_user_id, fetch>>
            ELSE /\ fallback_user_id' =
                        IF ~RequestFailed(resp.status) /\ resp.body = "id"
                        THEN resp.id ELSE None
                 /\ pc' = "orgs"
                 /\ fetch' = FetchStart(OrgsUrl, OrgsParams(cfg.group_id))
                 /\ UNCHANGED exc
    /\ UNCHANGED <<cfg, errors, log_file, error_summary, orgs, org_idx, targets,
                   target_idx, project_details, repo_info, matching_projects, proj_idx,
                   last_error_details, outcomes, srv>>

\* one request of get_snyk_orgs; after the last page, `if orgs:` and the first
\* organization's target listing
GetSnykOrgsPage ==
    /\ pc = "orgs"
    /\ \E status \in CallStatuses :
         IF RequestFailed(status)
         THEN /\ reqs' = Append(reqs, Request("GET", "orgs", fetch.next_url,
                                              fetch.next_params, status, None, <<>>, <<>>))
              /\ Abort(ExceptionOf(status))
              /\ fetch' = FetchIdle
              /\ UNCHANGED <<orgs, org_idx, srv>>
         ELSE \E body \in OrgPageBodies :
              LET f == PageStep(fetch, body, SnykBase)
              IN /\ reqs' = Append(reqs, Request("GET", "orgs", fetch.next_url,
                                                 fetch.next_params, status, None,
                                                 Some(body.links), body.data))
                 /\ srv' = [srv EXCEPT !.orgs = @ + Len(body.data)]
                 /\ UNCHANGED exc
                 /\ IF FetchContinues(f)
                    THEN /\ fetch' = f
                         /\ UNCHANGED <<pc, orgs, org_idx>>
                    ELSE /\ orgs' = f.all
                         /\ IF f.all # <<>>
                            THEN /\ pc' = "targets"
                                 /\ org_idx' = 1
                                 /\ fetch' = FetchStart(TargetsUrl(f.all[1].id),
                                                        TargetsParams(TRUE))
                            ELSE /\ pc' = "save"
                                 /\ fetch' = FetchIdle
                                 /\ UNCHANGED org_idx
    /\ UNCHANGED <<cfg, fallback_user_id, errors, log_file, error_summary, targets,
                   target_idx, project_details, repo_info, matching_projects, proj_idx,
                   last_error_details, outcomes>>

\* one request of get_targets_for_org for the current organization; after the last
\* page the loop over the targets starts
GetTargetsPage ==
    /\ pc = "targets"
    /\ \E status \in TargetListStatuses :
         IF RequestFailed(status)
         THEN /\ reqs' = Append(reqs, Request("GET", "targets", fetch.next_url,
                                              fetch.next_params, status,
                                              orgs[org_idx].id, <<>>, <<>>))
              /\ Abort(ExceptionOf(status))
              /\ fetch' = FetchIdle
              /\ UNCHANGED <<org_idx, targets, target_idx, srv>>
         ELSE \E body \in TargetPageBodies(orgs[org_idx].id) :
              LET f == PageStep(fetch, body, SnykBase)
              IN /\ reqs' = Append(reqs, Request("GET", "targets", fetch.next_url,
                                                 fetch.next_params, status,
                                                 orgs[org_idx].id, Some(body.links),
                                                 body.data))
                 /\ srv' = [srv EXCEPT !.targets = @ + Len(body.data)]
                 /\ UNCHANGED exc
                 /\ IF FetchContinues(f)
                    THEN /\ fetch' = f
                         /\ UNCHANGED <<pc, org_idx, targets, target_idx>>
                    ELSE Goto(AfterTarget(0, f.all))
    /\ UNCHANGED <<cfg, fallback_user_id, errors, log_file, error_summary, orgs,
                   project_details, repo_info, matching_projects, proj_idx,
                   last_error_details, outcomes>>

\* the head of the target loop: a target without URL is recorded and skipped;
\* otherwise get_project_details requests the project listing
BeginTarget ==
    /\ pc = "target"
    /\ LET org == orgs[org_idx]
           target == targets[target_idx]
       IN IF ~TruthyUrl(target.url)
          THEN /\ errors' = LogError(errors,
                                ErrorEntry("missing_target_url", None, target.id,
                                           NoneUrl, org.id, <<>>))
               /\ EndTarget
               /\ UNCHANGED <<reqs, srv>>
          ELSE \E status \in CallStatuses :
               IF RequestFailed(status)
               THEN /\ reqs' = Append(reqs, Request("GET", "projects", ProjectsUrl(org.id),
                                                    {"version", "target_id"}, status,
                                                    target.id, <<>>, <<>>))
                    /\ project_details' = <<>>
                    /\ pc' = "repo"
                    /\ UNCHANGED <<errors, org_idx, target_idx, targets, fetch, repo_info,
                                   matching_projects, proj_idx, srv>>
               ELSE \E body \in ProjectBodies :
                    /\ reqs' = Append(reqs, Request("GET", "projects", ProjectsUrl(org.id),
                                                    {"version", "target_id"}, status,
                                                    target.id, <<>>, <<>>))
                    /\ project_details' = Some(body)
                    /\ srv' = [srv EXCEPT !.projects = @ + Len(body.data)]
                    /\ pc' = "repo"
                    /\ UNCHANGED <<errors, org_idx, target_idx, targets, fetch, repo_info,
                                   matching_projects, proj_idx>>
    /\ UNCHANGED <<exc, cfg, fallback_user_id, log_file, error_summary, orgs,
                   last_error_details, outcomes>>

\* an entry of another kind for a target whose repository was not resolved
MislabelledError(target, org, details) ==
    ErrorEntry("missing_project_details", None, target.id, target.url, org.id, <<>>)

\* the error entry main writes when get_repository_info returned None
GithubApiError(target, org, details) ==
    ErrorEntry("github_api_error", None, None, target.url, org.id, details)

\* what main does with repo_info and project_details once both are known
AfterRepositoryInfo(info, target, org, details) ==
    IF info = <<>>
    THEN /\ errors' = LogError(errors, GithubApiError(target, org, details))
         /\ EndTarget
         /\ UNCHANGED exc
    ELSE IF ~HasProjectData(project_details)
    THEN /\ errors' = LogError(errors,
                          ErrorEntry("missing_project_details", None, target.id,
                                     target.url, org.id, <<>>))
         /\ EndTarget
         /\ UNCHANGED exc
    ELSE IF MatchRaises(project_details[1].data)
    THEN /\ Abort("KeyError")
         /\ repo_info' = info
         /\ UNCHANGED <<errors, org_idx, target_idx, targets, fetch, project_details,
                        matching_projects, proj_idx>>
    ELSE LET m == MatchingProjects(project_details[1].data, info[1].default_branch)
         IN IF m # <<>>
            THEN /\ repo_info' = info
                 /\ matching_projects' = m
                 /\ proj_idx' = 1
                 /\ pc' = "project"
                 /\ UNCHANGED <<exc, errors, org_idx, target_idx, targets, fetch,
                                project_details>>
            ELSE /\ EndTarget
                 /\ UNCHANGED <<exc, errors>>

\* get_repository_info for the current target, then the matching of its projects
ResolveRepository ==
    /\ pc = "repo"
    /\ LET org == orgs[org_idx]
           target == targets[target_idx]
           ident == ExtractRepoInfo(target.url)
       IN IF ident = <<>>
          THEN /\ AfterRepositoryInfo(<<>>, target, org, last_error_details)
               /\ UNCHANGED <<reqs, last_error_details>>
          ELSE \E resp \in GithubResponses :
               LET url == RepoUrl(ident[1].owner, ident[1].repo)
                   rec == GithubErrorDetails(resp, url, ident[1].owner, ident[1].repo)
                   details == IF IsSome(rec) THEN rec ELSE last_error_details
               IN /\ reqs' = Append(reqs, Request("GET", "repo", url, {}, resp.status,
                                                  target.id, <<>>, BranchRead(resp)))
                  /\ IF JsonRaisesUncaught(resp)
                     THEN /\ Abort("ValueError")
                          /\ UNCHANGED <<errors, org_idx, target_idx, targets, fetch,
                                         project_details, repo_info, matching_projects,
                                         proj_idx, last_error_details>>
                     ELSE /\ last_error_details' = details
                          /\ AfterRepositoryInfo(RepositoryInfo(ident[1], resp, target.url),
                                                 target, org, details)
    /\ UNCHANGED <<cfg, fallback_user_id, log_file, error_summary, orgs, outcomes, srv>>

\* what main reports for a matched project, with the tag list and the importer
\* relationship it read and the tag value and owner it passed
Outcome(project, target, org, result, existing_tags, tag_value, owner_id) ==
    [project_id |-> project.id, target_id |-> target.id, org_id |-> org.id,
     result |-> result, existing_tags |-> existing_tags, tag_value |-> tag_value,
     importer |-> project.importer, owner_id |-> owner_id]

\* a loop that stays on the same project
StayOnProject ==
    UNCHANGED <<pc, org_idx, target_idx, targets, fetch, project_details, repo_info,
                matching_projects, proj_idx>>

\* the loop over matching_projects moves on
NextProject ==
    IF proj_idx < Len(matching_projects)
    THEN /\ proj_idx' = proj_idx + 1
         /\ UNCHANGED <<pc, org_idx, target_idx, targets, fetch, project_details,
                        repo_info, matching_projects>>
    ELSE EndTarget

\* one matched project: its tags and importer relationship are read, the owner is
\* resolved, tag_project is called and its result reported
TagMatchingProject ==
    /\ pc = "project"
    /\ \E tags \in TagLists, im \in ImporterShapes, status \in CallStatuses :
         LET org == orgs[org_idx]
             target == targets[target_idx]
             entry == matching_projects[proj_idx]
             project == [id |-> entry.id, tags |-> tags, importer |-> im]
             owner == ResolveOwner(project, fallback_user_id)
             r == TagProject(org.id, project.id, cfg.key, repo_info[1].default_branch,
                             project.tags, owner.owner_id, cfg.dry_run, status)
         IN IF ~owner.found
            THEN /\ errors' = LogError(errors,
                                  ErrorEntry("missing_owner_id", project.id, None,
                                             target.url, org.id, <<>>))
                 /\ outcomes' = Append(outcomes,
                                       Outcome(project, target, org, "skipped", <<>>,
                                               repo_info[1].default_branch, None))
                 /\ UNCHANGED reqs
            ELSE /\ reqs' = reqs \o r.sent
                 /\ outcomes' = Append(outcomes,
                                       Outcome(project, target, org, r.result, tags,
                                               repo_info[1].default_branch,
                                               owner.owner_id))
                 /\ errors' = IF r.result = "raised"
                              THEN LogError(errors,
                                       ErrorEntry("tagging_api_error", project.id, None,
                                                  target.url, org.id, <<>>))
                              ELSE errors
    /\ NextProject
    /\ UNCHANGED <<exc, cfg, fallback_user_id, log_file, error_summary, orgs,
                   last_error_details, srv>>

\* the end of main: error_logger.save_log(), then error_logger.get_summary() and
\* the per-kind report
SaveAndSummarize ==
    /\ pc = "save"
    /\ \E write_ok \in BOOLEAN : log_file' = SaveLog(errors, log_file, write_ok)
    /\ error_summary' = Some(GetSummary(errors))
    /\ pc' = "done"
    /\ UNCHANGED <<exc, cfg, fallback_user_id, errors, fetch, orgs, org_idx, targets,
                   target_idx, project_details, repo_info, matching_projects, proj_idx,
                   last_error_details, reqs, outcomes, srv>>

-----------------------------------------------------------------------------
(* Specifications *)

Config(snyk, github, types_ok, dry_run, key, mode) ==
    [snyk_token |-> snyk, github_token |-> github, types_ok |-> types_ok,
     dry_run |-> dry_run, key |-> key, value |-> "configured", group_id |-> None,
     mode |-> mode]

\* the state main starts in, apart from cfg
Fresh ==
    /\ pc = "start"
    /\ exc = None
    /\ fallback_user_id = None
    /\ errors = <<>>
    /\ log_file = <<>>
    /\ error_summary = <<>>
    /\ fetch = FetchIdle
    /\ orgs = <<>>
    /\ org_idx = 0
    /\ targets = <<>>
    /\ target_idx = 0
    /\ project_details = <<>>
    /\ repo_info = <<>>
    /\ matching_projects = <<>>
    /\ proj_idx = 0
    /\ last_error_details = <<>>
    /\ reqs = <<>>
    /\ outcomes = <<>>
    /\ srv = [orgs |-> 0, targets |-> 0, projects |-> 0]

\* a whole run of main
Init ==
    /\ cfg \in {Config(s, g, t, d, "branch", "run") :
                  s \in {None, "tok"}, g \in {None, "tok"}, t \in BOOLEAN, d \in BOOLEAN}
    /\ Fresh

Next ==
    \/ CheckCredentials
    \/ GetTokenDetails
    \/ GetSnykOrgsPage
    \/ GetTargetsPage
    \/ BeginTarget
    \/ ResolveRepository
    \/ TagMatchingProject
    \/ SaveAndSummarize

Spec == Init /\ [][Next]_vars

\* the requests main has made when it reaches the first matched project of the
\* first target of the first organization
RequestsBeforeProject(branch) ==
    <<Request("GET", "self", SelfUrl, {"version"}, 200, None, <<>>, <<>>),
      Request("GET", "orgs", OrgsUrl, OrgsParams(None), 200, None, Some(<<>>),
              <<[id |-> "o1"]>>),
      Request("GET", "targets", TargetsUrl("o1"), TargetsParams(TRUE), 200, "o1",
              Some(<<>>), <<[id |-> "t1", url |-> GoodUrl]>>),
      Request("GET", "projects", ProjectsUrl("o1"), {"version", "target_id"}, 200, "t1",
              <<>>, <<>>),
      Request("GET", "repo", RepoUrl(<<"acme">>, <<"widgets">>), {}, 200, "t1", <<>>,
              <<branch>>)>>

\* one matched project, about to be processed: every tag list, importer
\* relationship, fallback identity and write response
InitMerge ==
    /\ cfg \in {Config("tok", "tok", TRUE, d, k, "merge") : d \in BOOLEAN, k \in TagKeys}
    /\ fallback_user_id \in {None, "", "u0"}
    /\ \E b \in Branches :
         /\ repo_info = Some([owner |-> <<"acme">>, repo |-> <<"widgets">>,
                              default_branch |-> b, url |-> GoodUrl])
         /\ project_details =
                Some([has_data |-> TRUE,
                      data |-> <<[id |-> "p1", has_ref |-> TRUE, target_reference |-> b]>>])
         /\ matching_projects = <<[id |-> "p1", has_ref |-> TRUE, target_reference |-> b]>>
         /\ reqs = RequestsBeforeProject(b)
    /\ pc = "project"
    /\ exc = None
    /\ errors = <<>>
    /\ log_file = <<>>
    /\ error_summary = <<>>
    /\ fetch = FetchIdle
    /\ orgs = <<[id |-> "o1"]>>
    /\ org_idx = 1
    /\ targets = <<[id |-> "t1", url |-> GoodUrl]>>
    /\ target_idx = 1
    /\ proj_idx = 1
    /\ last_error_details = <<>>
    /\ outcomes = <<>>
    /\ srv = [orgs |-> 1, targets |-> 1, projects |-> 1]

NextMerge == TagMatchingProject

SpecMerge == InitMerge /\ [][NextMerge]_vars

\* the organization listing about to start, then the target listings: every page
\* size, next-link form and failure
InitFetch ==
    /\ cfg = Config("tok", "tok", TRUE, FALSE, "branch", "fetch")
    /\ pc = "orgs"
    /\ exc = None
    /\ fallback_user_id = "u0"
    /\ errors = <<>>
    /\ log_file = <<>>
    /\ error_summary = <<>>
    /\ fetch = FetchStart(OrgsUrl, OrgsParams(None))
    /\ orgs = <<>>
    /\ org_idx = 0
    /\ targets = <<>>
    /\ target_idx = 0
    /\ project_details = <<>>
    /\ repo_info = <<>>
    /\ matching_projects = <<>>
    /\ proj_idx = 0
    /\ last_error_details = <<>>
    /\ reqs = <<Request("GET", "self", SelfUrl, {"version"}, 200, None, <<>>, <<>>)>>
    /\ outcomes = <<>>
    /\ srv = [orgs |-> 0, targets |-> 0, projects |-> 0]

NextFetch ==
    \/ GetSnykOrgsPage
    \/ GetTargetsPage

SpecFetch == InitFetch /\ [][NextFetch]_vars

\* the organization listing about to start, with or without a group filter, then
\* the target listing of the first organization: pages of one record, every form
\* of the `links` member, every failure
InitLinks ==
    /\ cfg \in {[Config("tok", "tok", TRUE, FALSE, "branch", "links") EXCEPT !.group_id = g] :
                  g \in {None, "g1"}}
    /\ pc = "orgs"
    /\ exc = None
    /\ fallback_user_id = "u0"
    /\ errors = <<>>
    /\ log_file = <<>>
    /\ error_summary = <<>>
    /\ fetch = FetchStart(OrgsUrl, OrgsParams(cfg.group_id))
    /\ orgs = <<>>
    /\ org_idx = 0
    /\ targets = <<>>
    /\ target_idx = 0
    /\ project_details = <<>>
    /\ repo_info = <<>>
    /\ matching_projects = <<>>
    /\ proj_idx = 0
    /\ last_error_details = <<>>
    /\ reqs = <<Request("GET", "self", SelfUrl, {"version"}, 200, None, <<>>, <<>>)>>
    /\ outcomes = <<>>
    /\ srv = [orgs |-> 0, targets |-> 0, projects |-> 0]

NextLinks ==
    \/ GetSnykOrgsPage
    \/ GetTargetsPage

SpecLinks == InitLinks /\ [][NextLinks]_vars

\* the host part of a target URL as the extraction sees it: github.com, an
\* enterprise host, and the enterprise host github.company.com, whose name holds the
\* characters "github.com"
Hosts == {<<"github.com">>, <<"ghe.acme.com">>, <<"github.com", "pany.com">>}

\* a path segment: a name, or empty (a trailing or doubled slash)
SegmentSet == {<<"acme">>, <<"widgets">>, <<>>}

RECURSIVE JoinPath(_)
\* "/" before every segment
JoinPath(segs) ==
    IF segs = <<>> THEN <<>> ELSE <<"/">> \o Head(segs) \o JoinPath(Tail(segs))

\* the URL https://<host>/<segment>/<segment>...[.git]
MakeUrl(host, segs, git) ==
    <<"https:", "/", "/">> \o host \o JoinPath(segs) \o (IF git THEN <<".git">> ELSE <<>>)

\* the target URLs the identity extraction is explored with
ResolveUrls ==
    {MakeUrl(h, segs, git) : h \in Hosts, segs \in SeqsUpTo(SegmentSet, MaxSegments),
                             git \in BOOLEAN}

\* the project listings the matching is explored with
ResolveListings ==
    {<<>>, Some([has_data |-> FALSE, data |-> <<>>])}
    \cup {Some([has_data |-> TRUE, data |-> d]) :
             d \in UNION {ProjectListsOf(n) : n \in 0..MaxListing}}

\* one target whose project listing has been requested, about to be resolved: every
\* URL with the listing of the 'main'/'dev' scenario, and every listing with a
\* repository URL
InitResolve ==
    /\ cfg = Config("tok", "tok", TRUE, FALSE, "branch", "resolve")
    /\ srv = [orgs |-> 1, targets |-> 1, projects |-> 0]
    /\ \E u \in ResolveUrls, d \in ResolveListings :
         /\ \/ d = Some([has_data |-> TRUE,
                         data |-> <<[id |-> "p1", has_ref |-> TRUE, target_reference |-> "main"],
                                    [id |-> "p2", has_ref |-> TRUE, target_reference |-> "dev"]>>])
            \/ u = GoodUrl
         /\ targets = <<[id |-> "t1", url |-> u]>>
         /\ project_details = d
         /\ reqs = <<Request("GET", "self", SelfUrl, {"version"}, 200, None, <<>>, <<>>),
                     Request("GET", "orgs", OrgsUrl, OrgsParams(None), 200, None,
                             Some(<<>>), <<[id |-> "o1"]>>),
                     Request("GET", "targets", TargetsUrl("o1"), TargetsParams(TRUE), 200,
                             "o1", Some(<<>>), <<[id |-> "t1", url |-> u]>>),
                     Request("GET", "projects", ProjectsUrl("o1"), {"version", "target_id"},
                             IF d = <<>> THEN 500 ELSE 200, "t1", <<>>, <<>>)>>
    /\ pc = "repo"
    /\ exc = None
    /\ fallback_user_id = "u0"
    /\ errors = <<>>
    /\ log_file = <<>>
    /\ error_summary = <<>>
    /\ fetch = FetchIdle
    /\ orgs = <<[id |-> "o1"]>>
    /\ org_idx = 1
    /\ target_idx = 1
    /\ repo_info = <<>>
    /\ matching_projects = <<>>
    /\ proj_idx = 0
    /\ last_error_details = <<>>
    /\ outcomes = <<>>

NextResolve == ResolveRepository

SpecResolve == InitResolve /\ [][NextResolve]_vars

-----------------------------------------------------------------------------
(* Properties *)

\* the positions of the request log that hold a write
Writes == {i \in DOMAIN reqs : reqs[i].m = "PATCH"}

\* the ledger entries that reference a project
RecordsOf(project_id) == {j \in DOMAIN errors : errors[j].project_id = project_id}

\* main has ended: normally, or by an uncaught exception
Ended == pc \in {"done", "aborted"}

\* C1: at the end of the run, every matched project whose processing did not end
\* in a successful write or an "already correct" result (owner unresolvable, write
\* failed, tagging raised) has exactly one ErrorRecord referencing it, and every
\* project that ended tagged or already correct has none.
C1_OneRecordPerFailedProject ==
    pc = "done" =>
        \A i \in DOMAIN outcomes :
            LET n == Cardinality(RecordsOf(outcomes[i].project_id))
            IN /\ outcomes[i].result \in {"skipped", "None", "raised"} => n = 1
               /\ outcomes[i].result \in {"tagged", "already_correct"} => n = 0

\* what main reported for a project
OutcomeOf(project_id) ==
    outcomes[CHOOSE k \in DOMAIN outcomes : outcomes[k].project_id = project_id]

\* the tag list main read for the project a write is about
ExistingTagsOf(project_id) == OutcomeOf(project_id).existing_tags[1]

\* the tag value main passed for the project a write is about
TagValueOf(project_id) == OutcomeOf(project_id).tag_value

RECURSIVE WithKey(_, _)
\* the tags of a list that have the key, in order
WithKey(tags, key) ==
    IF tags = <<>> THEN <<>>
    ELSE IF Head(tags).key = key THEN <<Head(tags)>> \o WithKey(Tail(tags), key)
    ELSE WithKey(Tail(tags), key)

RECURSIVE WithoutKey(_, _)
\* the tags of a list that have another key, in order
WithoutKey(tags, key) ==
    IF tags = <<>> THEN <<>>
    ELSE IF Head(tags).key # key THEN <<Head(tags)>> \o WithoutKey(Tail(tags), key)
    ELSE WithoutKey(Tail(tags), key)

\* C2: the tag list sent in a write holds exactly one tag with the merge key, and
\* that tag has the merged value (the default branch), whatever tags the project
\* had, several with the merge key included.
C2_OneTagWithKey ==
    \A i \in Writes :
        WithKey(reqs[i].body[1].tags, cfg.key) =
            <<Tag(cfg.key, TagValueOf(reqs[i].ref))>>

\* C3: the tag list sent in a write holds the project's tags with another key
\* unmodified, none dropped, none added, in their original relative order.
C3_OtherTagsPreserved ==
    \A i \in Writes :
        WithoutKey(reqs[i].body[1].tags, cfg.key) =
            WithoutKey(ExistingTagsOf(reqs[i].ref), cfg.key)

\* C3 witness: a write for a project that had two different tags with another key
\* around a tag with the merge key and an outdated value.
C3_Witness ==
    \E i \in Writes :
        LET old == ExistingTagsOf(reqs[i].ref)
        IN /\ Len(old) = 3
           /\ old[1].key # cfg.key /\ old[3].key # cfg.key /\ old[1] # old[3]
           /\ old[2].key = cfg.key
           /\ reqs[i].status = 200

\* C4: every write carries an ownership identity that is neither null nor empty.
C4_WriteHasOwner ==
    \A i \in Writes : Truthy(reqs[i].body[1].owner)

\* C5: a run that passed the credential check ends only after the ledger flush and
\* the per-kind summary, whatever failed on the way.
C5_RunEndsWithFlush ==
    Ended => IsSome(error_summary)

\* C6: a failure inside the processing of a target or of a matched project does
\* not end the run (only a failed listing does), and it is recorded in the ledger.
C6_FailSoftPerEntity ==
    /\ pc = "aborted" => reqs[Len(reqs)].ep \in {"self", "orgs", "targets"}
    /\ \A i \in DOMAIN outcomes :
           outcomes[i].result \in {"skipped", "None", "raised"}
               => RecordsOf(outcomes[i].project_id) # {}

\* the positions of the request log that hold a failed listing page
FailedListingPages ==
    {i \in DOMAIN reqs : reqs[i].ep \in {"orgs", "targets"} /\ reqs[i].status # 200}

\* C7: a listing page that fails, first or later, ends the fetch and the run: the
\* exception leaves main, no list is returned for that listing (no partial
\* result), and no request follows the failed one.
C7_FailedPageAbortsRun ==
    \A i \in FailedListingPages :
        /\ i = Len(reqs)
        /\ pc = "aborted"
        /\ exc \in {"HTTPError", "ConnectionError"}
        /\ reqs[i].ep = "orgs" => orgs = <<>>
        /\ reqs[i].ep = "targets" => targets = <<>>

\* C7 witness: the second page of a target listing failed after a first page that
\* carried a target.
C7_Witness ==
    /\ pc = "aborted"
    /\ Len(reqs) >= 2
    /\ LET last == reqs[Len(reqs)]
           prev == reqs[Len(reqs) - 1]
       IN /\ last.ep = "targets" /\ last.status = 500 /\ last.params = {}
          /\ prev.ep = "targets" /\ prev.status = 200 /\ prev.data # <<>>

RECURSIVE PagesOf(_, _, _)
\* the concatenation of the records of the pages of a listing, in request order
PagesOf(log, ep, ref) ==
    IF log = <<>> THEN <<>>
    ELSE (IF Head(log).ep = ep /\ Head(log).ref = ref THEN Head(log).data ELSE <<>>)
         \o PagesOf(Tail(log), ep, ref)

\* get_snyk_orgs has returned
OrgsReturned == pc \in {"targets", "target", "repo", "project", "save", "done"}

\* get_targets_for_org has returned for the current organization and its list is
\* still being worked on
TargetsReturned == pc \in {"target", "repo", "project"}

\* C8: what get_snyk_orgs and get_targets_for_org return is the concatenation of
\* the records of every page fetched, in page order and per-page order.
C8_FetchConcatenatesPages ==
    /\ OrgsReturned => orgs = PagesOf(reqs, "orgs", None)
    /\ TargetsReturned => targets = PagesOf(reqs, "targets", orgs[org_idx].id)

\* C8 witness: an organization listing of three pages with 2, 2 and 1 records has
\* returned its 5 records, and a target listing of more than one page has returned.
C8_Witness ==
    /\ TargetsReturned
    /\ Len(orgs) = 5
    /\ \E i \in DOMAIN reqs :
          /\ i + 2 \in DOMAIN reqs
          /\ reqs[i].ep = "orgs" /\ Len(reqs[i].data) = 2
          /\ reqs[i + 1].ep = "orgs" /\ Len(reqs[i + 1].data) = 2
          /\ reqs[i + 2].ep = "orgs" /\ Len(reqs[i + 2].data) = 1
    /\ Cardinality({i \in DOMAIN reqs : reqs[i].ep = "targets" /\ reqs[i].data # <<>>}) >= 2

\* C9: in dry-run mode no write request is ever issued.
C9_DryRunNeverWrites ==
    cfg.dry_run => Writes = {}

\* C9 witness: a dry run that listed targets and projects, resolved a default
\* branch, matched a project and called tag_project for it.
C9_Witness ==
    /\ cfg.dry_run
    /\ \E i \in DOMAIN outcomes : outcomes[i].result = "dry_run"
    /\ \E i \in DOMAIN reqs : reqs[i].ep = "projects" /\ reqs[i].status = 200
    /\ \E i \in DOMAIN reqs : reqs[i].ep = "repo" /\ reqs[i].status = 200

\* C10: whenever a dry run reports that it would tag a project, a live run on the
\* same input writes the tag (the merge is an update or an insert); a project
\* whose tag is already correct is not reported as one to tag.
C10_DryRunSameOutcome ==
    \A i \in DOMAIN outcomes :
        outcomes[i].result = "dry_run" =>
            /\ IsSome(outcomes[i].existing_tags)
            /\ MergeTags(outcomes[i].existing_tags[1], cfg.key,
                         outcomes[i].tag_value).status \in {"updated", "inserted"}


\* the writes made for a project
WritesFor(project_id) == {i \in Writes : reqs[i].ref = project_id}

\* the outcomes of a live tag_project call that was handed a tag list
LiveMerges ==
    {i \in DOMAIN outcomes :
        outcomes[i].result \in {"already_correct", "tagged", "None"}}

\* a tag with the key and exactly the value is in the list
HasExactTag(tags, key, value) == \E k \in DOMAIN tags : tags[k] = Tag(key, value)

\* C11: in a live run tag_project makes no write (and reports already correct) when
\* the project has a tag with the key and exactly the value, and makes exactly one
\* write otherwise (the tag is updated or inserted).
C11_WriteOnlyWhenChanged ==
    \A i \in LiveMerges :
        LET o == outcomes[i]
        IN IF HasExactTag(o.existing_tags[1], cfg.key, o.tag_value)
           THEN WritesFor(o.project_id) = {} /\ o.result = "already_correct"
           ELSE Cardinality(WritesFor(o.project_id)) = 1 /\ o.result # "already_correct"

\* C11 witness: a live call for a project that has the correct tag behind an
\* outdated tag with the same key; nothing was written.
C11_Witness ==
    \E i \in LiveMerges :
        LET old == outcomes[i].existing_tags[1]
        IN /\ ~cfg.dry_run
           /\ Len(old) = 2
           /\ old[1].key = cfg.key /\ old[1].value # outcomes[i].tag_value
           /\ old[2] = Tag(cfg.key, outcomes[i].tag_value)
           /\ outcomes[i].result = "already_correct"
           /\ Writes = {}

\* C12: the merge is idempotent: merging the same (key, value) into the tag list a
\* first merge produced is classified already correct, sends nothing, and so leaves
\* the collection as the first merge made it.
C12_MergeIdempotent ==
    \A i \in Writes :
        LET first == reqs[i].body[1].tags
            value == TagValueOf(reqs[i].ref)
            again == TagProject("o1", reqs[i].ref, cfg.key, value, Some(first),
                                reqs[i].body[1].owner, FALSE, 200)
        IN /\ HasExactTag(first, cfg.key, value)
           /\ again.result = "already_correct"
           /\ again.sent = <<>>

\* C12 witness: a first merge that replaced an outdated tag between two other tags
\* and was written.
C12_Witness ==
    \E i \in Writes :
        LET old == ExistingTagsOf(reqs[i].ref)
        IN /\ Len(old) = 3
           /\ old[2].key = cfg.key /\ old[2].value # TagValueOf(reqs[i].ref)
           /\ old[1].key # cfg.key /\ old[3].key # cfg.key
           /\ reqs[i].status = 200
           /\ reqs[i].body[1].tags[2] = Tag(cfg.key, TagValueOf(reqs[i].ref))


\* the default branch the metadata request of a step returned, as the log has it
BranchOf(log) == log[Len(log)].data[1]

\* the step is a metadata request that resolved a default branch
ResolvedBranch ==
    /\ pc = "repo"
    /\ Len(reqs') = Len(reqs) + 1
    /\ reqs'[Len(reqs')].ep = "repo"
    /\ reqs'[Len(reqs')].data # <<>>
    /\ Truthy(BranchOf(reqs'))

\* the entries of a listing whose target_reference is the branch, in listing order
Referencing(data, branch) ==
    LET IsOnBranch(e) == e.has_ref /\ e.target_reference = branch
    IN SelectSeq(data, IsOnBranch)

\* C13: once the default branch of a target is resolved, the projects selected for
\* tagging are exactly the entries of the target's project listing whose
\* target_reference equals the branch (exact comparison), in listing order, and the
\* project loop is entered exactly when there is one.
C13_SelectsExactMatches ==
    [][(ResolvedBranch /\ HasProjectData(project_details) /\ pc' # "aborted")
        => /\ matching_projects' = Referencing(project_details[1].data, BranchOf(reqs'))
           /\ (pc' = "project") <=> (matching_projects' # <<>>)]_vars

\* C13 witness: of three entries on "main", "Main" and "main", the first and the
\* third are selected for the default branch "main".
C13_Witness ==
    /\ pc = "project"
    /\ repo_info[1].default_branch = "main"
    /\ Len(project_details[1].data) = 3
    /\ project_details[1].data[2].target_reference = "Main"
    /\ matching_projects = <<project_details[1].data[1], project_details[1].data[3]>>


\* the most recent metadata request of a log: the one of the target being processed
LastRepo(log) ==
    log[CHOOSE i \in DOMAIN log :
            log[i].ep = "repo" /\ \A j \in DOMAIN log : log[j].ep = "repo" => j <= i]

\* the listing entry of the current target with the id is on the resolved branch
OnResolvedBranch(project_id) ==
    \E k \in DOMAIN project_details[1].data :
        /\ project_details[1].data[k].id = project_id
        /\ project_details[1].data[k].target_reference = LastRepo(reqs).data[1]

\* C14: a write or an ErrorRecord for a project is made only for an entry whose
\* target_reference is the resolved default branch, so a project on another branch
\* gets neither; and a target none of whose projects is on the default branch adds
\* nothing to the ledger and makes no further request.
C14_NonMatchIsNoError ==
    [][/\ (Len(reqs') > Len(reqs) /\ reqs'[Len(reqs')].m = "PATCH")
            => OnResolvedBranch(reqs'[Len(reqs')].ref)
       /\ (Len(errors') > Len(errors) /\ errors'[Len(errors')].project_id # None)
            => OnResolvedBranch(errors'[Len(errors')].project_id)
       /\ (/\ ResolvedBranch
           /\ HasProjectData(project_details)
           /\ pc' # "aborted"
           /\ Referencing(project_details[1].data, BranchOf(reqs')) = <<>>)
            => errors' = errors /\ pc' # "project"]_vars

\* C14 witness: a run over one target with two projects, the default branch "main":
\* one project was processed and written, the other was on another branch, and the
\* ledger is empty.
C14_Witness ==
    /\ pc = "done"
    /\ srv = [orgs |-> 1, targets |-> 1, projects |-> 2]
    /\ Len(outcomes) = 1
    /\ outcomes[1].tag_value = "main"
    /\ outcomes[1].result = "tagged"
    /\ Cardinality(Writes) = 1
    /\ errors = <<>>


\* the ownership relationship of a project holds an id
ValidImporter(im) == im.shape = "present" /\ im.id \notin {None, ""}

\* the ownership relationship of a project is absent or malformed
NoImporter(im) == im.shape \in {"absent", "malformed"}

\* every write made for the project carries the owner
WritesCarry(project_id, owner_id) ==
    \A i \in WritesFor(project_id) : reqs[i].body[1].owner = owner_id

\* C15: for a matched project, the owner handed to tag_project (and carried by its
\* write) is the project's recorded ownership id when the relationship is valid,
\* whatever the fallback; the fallback identity when the relationship is absent or
\* malformed and a fallback is present; and when both are unavailable the project is
\* skipped with exactly one ErrorRecord and no write.
C15_OwnerResolution ==
    \A i \in DOMAIN outcomes :
        LET o == outcomes[i]
        IN /\ ValidImporter(o.importer)
                => /\ o.result # "skipped"
                   /\ o.owner_id = o.importer.id
                   /\ WritesCarry(o.project_id, o.importer.id)
           /\ (NoImporter(o.importer) /\ fallback_user_id \notin {None, ""})
                => /\ o.result # "skipped"
                   /\ o.owner_id = fallback_user_id
                   /\ WritesCarry(o.project_id, fallback_user_id)
           /\ (NoImporter(o.importer) /\ fallback_user_id \in {None, ""})
                => /\ o.result = "skipped"
                   /\ WritesFor(o.project_id) = {}
                   /\ Cardinality(RecordsOf(o.project_id)) = 1
                   /\ \A j \in RecordsOf(o.project_id) :
                          errors[j].error_type = "missing_owner_id"

\* C15 witness: a project with a malformed ownership relationship was written with
\* the fallback identity as owner.
C15_Witness ==
    \E i \in DOMAIN outcomes :
        /\ outcomes[i].importer.shape = "malformed"
        /\ fallback_user_id = "u0"
        /\ \E w \in WritesFor(outcomes[i].project_id) :
               reqs[w].body[1].owner = "u0" /\ reqs[w].status = 200


\* the URL of the first target the log holds
FirstTargetUrl ==
    LET i == CHOOSE k \in DOMAIN reqs :
                 reqs[k].ep = "targets" /\ reqs[k].data # <<>> /\
                 \A j \in DOMAIN reqs : (reqs[j].ep = "targets" /\ reqs[j].data # <<>>) => k <= j
    IN reqs[i].data[1].url

\* the path segments a URL is built from here: names only
NameSegments == SegmentSet \ {<<>>}

\* the metadata request made for an identity is the last request of the log
RequestedIdentity(owner, repo) ==
    /\ reqs[Len(reqs)].ep = "repo"
    /\ reqs[Len(reqs)].url = RepoUrl(owner, repo)

\* the identity extraction failed: no metadata request, one github_api_error record
ExtractionFailed ==
    /\ reqs[Len(reqs)].ep # "repo"
    /\ Len(errors) = 1
    /\ errors[1].error_type = "github_api_error"

\* C16: for a URL https://<host>/<segments>[.git], on github.com or on any
\* enterprise host, the identity extracted is the first two path segments (the
\* .git suffix stripped), and the extraction fails when the path has fewer than two
\* segments.
C16_ExtractsFirstTwoSegments ==
    pc # "repo" =>
        \A h \in Hosts, segs \in SeqsUpTo(NameSegments, MaxSegments), git \in BOOLEAN :
            FirstTargetUrl = MakeUrl(h, segs, git) =>
                IF Len(segs) >= 2
                THEN RequestedIdentity(segs[1], segs[2])
                ELSE ExtractionFailed


\* a required credential is absent (unset or empty)
CredentialMissing == cfg.snyk_token \in {None, ""} \/ cfg.github_token \in {None, ""}

\* C17: when the scan-platform token or the hosting-platform token is absent, the
\* process exits with status 1 and no request to either platform is ever made.
C17_NoCredentialNoRequest ==
    CredentialMissing => (reqs = <<>> /\ pc \in {"start", "exit1"})

\* C17 witness: the run exited with status 1 for a missing hosting-platform token,
\* the scan-platform token being present.
C17_Witness ==
    /\ pc = "exit1"
    /\ cfg.snyk_token = "tok"
    /\ cfg.github_token = None
    /\ reqs = <<>>


\* the kinds of ErrorRecord that are about a target
TargetLevel == {"missing_target_url", "github_api_error", "missing_project_details"}

\* the records a step appends to the ledger
NewErrors == SubSeq(errors', Len(errors) + 1, Len(errors'))

\* a step appends exactly one record, of the kind
AppendsOne(kind) == Len(NewErrors) = 1 /\ NewErrors[1].error_type = kind

\* the project listing of the current target is unavailable
ListingUnavailable == project_details = <<>> \/ ~project_details[1].has_data

\* C18: a target without URL gets exactly one missing_target_url record and no
\* request; a target with a URL gets nothing when its listing is requested, then
\* exactly one github_api_error when its identity or branch is not resolved (also
\* when its listing is unavailable as well), exactly one missing_project_details
\* when only the listing is unavailable, and no record when both succeeded; the
\* processing of its projects adds no target-level record.
C18_OneTargetLevelRecord ==
    [][/\ (pc = "target" /\ targets[target_idx].url = NoneUrl)
            => /\ AppendsOne("missing_target_url")
               /\ NewErrors[1].target_id = targets[target_idx].id
               /\ reqs' = reqs
       /\ (pc = "target" /\ targets[target_idx].url # NoneUrl)
            => /\ errors' = errors
               /\ Len(reqs') = Len(reqs) + 1
               /\ reqs'[Len(reqs')].ep = "projects"
       /\ (pc = "repo" /\ ~ResolvedBranch)
            => /\ AppendsOne("github_api_error")
               /\ NewErrors[1].target_url = targets[target_idx].url
       /\ (pc = "repo" /\ ResolvedBranch /\ ListingUnavailable)
            => /\ AppendsOne("missing_project_details")
               /\ NewErrors[1].target_id = targets[target_idx].id
       /\ (pc = "repo" /\ ResolvedBranch /\ ~ListingUnavailable)
            => errors' = errors
       /\ pc = "project"
            => \A k \in DOMAIN NewErrors : NewErrors[k].error_type \notin TargetLevel]_vars

\* C18 witness: a run with a target without URL and a target whose listing request
\* and metadata request both failed: one record each.
C18_Witness ==
    /\ pc = "done"
    /\ Len(errors) = 2
    /\ {errors[1].error_type, errors[2].error_type} =
           {"missing_target_url", "github_api_error"}
    /\ \E i \in DOMAIN reqs :
          /\ i + 1 \in DOMAIN reqs
          /\ reqs[i].ep = "projects" /\ reqs[i].status = 500
          /\ reqs[i + 1].ep = "repo" /\ reqs[i + 1].status = 404
    /\ Cardinality({i \in DOMAIN reqs : reqs[i].ep = "projects"}) = 1


\* the request at position i of the log resolved the default branch of the target
ResolvedFor(i, target_id) ==
    /\ reqs[i].ep = "repo"
    /\ reqs[i].ref = target_id
    /\ reqs[i].data # <<>>
    /\ reqs[i].data[1] \notin {None, ""}

\* C19: the project listing of a target is requested only after the default branch
\* of that target has been resolved, and every write for a project follows the
\* resolution of its owner.
C19_StepOrder ==
    /\ \A i \in DOMAIN reqs :
           reqs[i].ep = "projects" => \E j \in 1..(i - 1) : ResolvedFor(j, reqs[i].ref)
    /\ \A w \in Writes :
           \E k \in DOMAIN outcomes :
               /\ outcomes[k].project_id = reqs[w].ref
               /\ outcomes[k].owner_id = reqs[w].body[1].owner


\* the last request of the log is a metadata request that get_default_branch
\* answered with failure: a non-200 status, a network error, an unparseable body or
\* a body without default_branch
BranchLookupFailed ==
    /\ reqs # <<>>
    /\ reqs[Len(reqs)].ep = "repo"
    /\ \/ reqs[Len(reqs)].status # 200
       \/ reqs[Len(reqs)].data = <<>>
       \/ reqs[Len(reqs)].data[1] = None

\* C20: get_default_branch never raises to its caller, and whenever it answers
\* with failure it has recorded the diagnostic context of that request as the
\* resolver's most recent failure.
C20_FailureIsRecorded ==
    /\ (pc = "aborted" /\ reqs # <<>> /\ reqs[Len(reqs)].ep = "repo") => exc # "ValueError"
    /\ (pc # "repo" /\ BranchLookupFailed)
           => /\ last_error_details # <<>>
              /\ last_error_details[1].url = reqs[Len(reqs)].url


\* C21: the ledger is append-only: a step leaves every record in place and in
\* order and appends at most one; the flush and the summary change nothing in it,
\* what the flush writes is the whole ledger in order, and neither failing to write
\* it nor log_error ends the run with an exception.
C21_LedgerAppendOnly ==
    [][/\ Len(errors') \in {Len(errors), Len(errors) + 1}
       /\ SubSeq(errors', 1, Len(errors)) = errors
       /\ log_file' # log_file => log_file' = Some(errors)
       /\ pc = "save" => /\ errors' = errors
                         /\ pc' = "done"
                         /\ exc' = None
                         /\ error_summary' # <<>>
       /\ Len(errors') > Len(errors) => pc' # "aborted"]_vars

\* C21 witness: a run ended with two records of different kinds flushed in the
\* order they were logged.
C21_Witness ==
    /\ pc = "done"
    /\ Len(errors) = 2
    /\ errors[1].error_type # errors[2].error_type
    /\ log_file = Some(errors)

\* the requests of a kind made for a target or project
RequestsFor(ep, ref) == {i \in DOMAIN reqs : reqs[i].ep = ep /\ reqs[i].ref = ref}

\* C22: nothing is retried: a target gets at most one metadata request and at most
\* one project-listing request, and a project at most one write, failed or not.
C22_NoRetry ==
    /\ \A i \in DOMAIN reqs :
           reqs[i].ep \in {"repo", "projects", "project"}
               => RequestsFor(reqs[i].ep, reqs[i].ref) = {i}
    /\ \A i \in DOMAIN outcomes : Cardinality(WritesFor(outcomes[i].project_id)) <= 1

\* C22 witness: a run ended after a failed listing request, a failed metadata
\* request and a failed write, each made once.
C22_Witness ==
    /\ pc = "done"
    /\ \E i \in DOMAIN reqs : reqs[i].ep = "projects" /\ reqs[i].status = 500
    /\ \E i \in DOMAIN reqs : reqs[i].ep = "repo" /\ reqs[i].status = 404
    /\ \E i \in Writes : reqs[i].status = 500

\* the requests of the two listings
ListingRequests == {i \in DOMAIN reqs : reqs[i].ep \in {"orgs", "targets"}}

\* the next-link of the page a listing request received: None when the response
\* has no links member or its next is null
NextLinkOf(i) == IF reqs[i].body[1] = <<>> THEN NoneUrl ELSE reqs[i].body[1][1]

\* the position of a request among the requests of its listing
PageNumber(i) ==
    Cardinality({j \in RequestsFor(reqs[i].ep, reqs[i].ref) : j <= i})

\* the listing a request belongs to is still being fetched
ListingOpen(i) ==
    \/ reqs[i].ep = "orgs" /\ pc = "orgs"
    \/ reqs[i].ep = "targets" /\ pc = "targets" /\ orgs[org_idx].id = reqs[i].ref

\* the URL of the first request of a listing
ListingUrl(i) == IF reqs[i].ep = "orgs" THEN OrgsUrl ELSE TargetsUrl(reqs[i].ref)

\* C23: a listing ends at the first response whose next-link is absent, null or
\* empty: no further request of that listing follows it and the fetch has returned.
\* A response with a next-link is followed by exactly one more request of the
\* listing.  The k-th request asks for the k-th page, so n pages take n requests.
C23_PaginationTerminates ==
    \A i \in ListingRequests :
        reqs[i].status = 200 =>
            LET n == PageNumber(i)
            IN /\ n = 1 => reqs[i].url = ListingUrl(i)
               /\ n > 1 => reqs[i].url[Len(reqs[i].url)] = Cursors[n]
               /\ IF TruthyUrl(NextLinkOf(i))
                  THEN \/ i = Len(reqs) /\ ListingOpen(i)
                       \/ /\ i < Len(reqs)
                          /\ reqs[i + 1].ep = reqs[i].ep
                          /\ reqs[i + 1].ref = reqs[i].ref
                          /\ PageNumber(i + 1) = n + 1
                  ELSE /\ ~ListingOpen(i)
                       /\ RequestsFor(reqs[i].ep, reqs[i].ref) \cap (i + 1)..Len(reqs) = {}
                       /\ Cardinality(RequestsFor(reqs[i].ep, reqs[i].ref)) = n
                       /\ reqs[i].ep = "orgs" => Len(orgs) = n
                       /\ reqs[i].ep = "targets" => Len(targets) = n

\* C23 witness: the organization listing took three requests and ended at a null
\* next-link, and the target listing took two and ended at an empty one.
C23_Witness ==
    /\ Cardinality(RequestsFor("orgs", None)) = 3
    /\ \E i \in RequestsFor("orgs", None) :
           reqs[i].status = 200 /\ reqs[i].body[1] = Some(NoneUrl) /\ PageNumber(i) = 3
    /\ \E i \in ListingRequests :
           /\ reqs[i].ep = "targets" /\ reqs[i].status = 200
           /\ reqs[i].body[1] = Some(<<>>) /\ PageNumber(i) = 2
    /\ Len(orgs) = 3
    /\ Len(targets) = 2

\* the URL a next-link stands for: an absolute link itself, a root-relative link
\* after the base URL, a bare link after the base URL and a slash
LinkTarget(link) ==
    IF link[1] \in Schemes THEN link
    ELSE IF link[1] = "/" THEN SnykBase \o link
    ELSE SnykBase \o <<"/">> \o link

\* the query parameters of the first request of a listing
ListingParams(i) ==
    IF reqs[i].ep = "orgs"
    THEN {"version", "limit"} \cup (IF cfg.group_id # None THEN {"group_id"} ELSE {})
    ELSE {"version", "limit", "source_types"}

\* C24: the first request of a listing goes to the listing's URL with the query
\* parameters; every later request carries no parameters and goes to the next-link
\* of the response before it, resolved against the base URL.
C24_ParamsOnFirstRequestOnly ==
    \A i \in ListingRequests :
        IF PageNumber(i) = 1
        THEN /\ reqs[i].url = ListingUrl(i)
             /\ reqs[i].params = ListingParams(i)
        ELSE /\ reqs[i].params = {}
             /\ reqs[i - 1].ep = reqs[i].ep
             /\ reqs[i - 1].ref = reqs[i].ref
             /\ reqs[i - 1].status = 200
             /\ TruthyUrl(NextLinkOf(i - 1))
             /\ reqs[i].url = LinkTarget(NextLinkOf(i - 1))

\* C24 witness: a listing filtered by group whose second request followed a
\* root-relative next-link and whose third followed a bare one.
C24_Witness ==
    /\ cfg.group_id = "g1"
    /\ \E i \in RequestsFor("orgs", None) :
           /\ PageNumber(i) = 3
           /\ "group_id" \in reqs[i - 2].params
           /\ NextLinkOf(i - 2)[1] = "/"
           /\ NextLinkOf(i - 1)[1] = "rest"
           /\ reqs[i].params = {}
    /\ \E i \in ListingRequests :
           reqs[i].ep = "targets" /\ PageNumber(i) = 2 /\ NextLinkOf(i - 1)[1] \in Schemes

\* the step appends a github_api_error record to the ledger
LogsGithubApiError ==
    /\ Len(errors') = Len(errors) + 1
    /\ errors'[Len(errors')].error_type = "github_api_error"

\* C25: the diagnostics of a github_api_error record are those of the metadata
\* request made for the same target in the same step: none when the identity
\* extraction failed and no request was made, none when the request recorded no
\* diagnostics (a parsed 200 body without default branch), and otherwise the status
\* and URL of that request.
C25_DiagnosticsAreOwn ==
    [][LogsGithubApiError =>
        LET gh == errors'[Len(errors')].gh
            r == reqs'[Len(reqs')]
        IN IF reqs' = reqs THEN gh = <<>>
           ELSE IF r.status = 200 /\ r.data # <<>> THEN gh = <<>>
           ELSE /\ gh # <<>>
                /\ gh[1].url = r.url
                /\ r.status # 200 => gh[1].status_code = r.status]_vars

\* the step sends a write
SendsWrite == Len(reqs') = Len(reqs) + 1 /\ reqs'[Len(reqs')].m = "PATCH"

\* the step reports a project as already correct
ReportsAlreadyCorrect ==
    /\ Len(outcomes') = Len(outcomes) + 1
    /\ outcomes'[Len(outcomes')].result = "already_correct"

\* the project being processed belongs to the target whose default branch the most
\* recent metadata request resolved, and is on that branch
OwnTargetBranch(project_id) ==
    /\ LastRepo(reqs).ref = targets[target_idx].id
    /\ matching_projects[proj_idx].id = project_id
    /\ matching_projects[proj_idx].target_reference = LastRepo(reqs).data[1]

EmptyIdentity(url) ==
    LET names == SubSeq(url, Len(GithubBase) + 4, Len(url))
    IN names[1] = "/" \/ names[Len(names)] = "/"

\* C27: no repository-metadata request is made with an empty owner or repo: a
\* target URL whose first or second path segment is empty yields failure.
C27_NoEmptyIdentity ==
    \A i \in DOMAIN reqs : reqs[i].ep = "repo" => ~EmptyIdentity(reqs[i].url)

====
